---- MODULE Spec2Model ----
(***************************************************************************)
(* StudentManager (client/src/lib/student-manager.ts) and Student          *)
(* (client/src/lib/student.ts) as a state machine.                          *)
(*                                                                         *)
(* Representation.                                                         *)
(*  - A JavaScript string that the code inspects character by character    *)
(*    (name, nim, search query) is a sequence of UTF-16 code units:        *)
(*    "Ab" is <<65, 98>>.  id and major are only compared for identity and *)
(*    tested for truthiness, so they are TLA+ strings.                     *)
(*  - A gpa value is [num |-> v] for the finite number v (in tenths),       *)
(*    [nan |-> TRUE] for NaN and [null |-> TRUE] for null, which is what   *)
(*    a NaN becomes in JSON.                                               *)
(*  - A Student object is a record of its private fields plus ref, the     *)
(*    object's identity: two Students built from the same data are         *)
(*    different objects and carry different refs.  A field that is         *)
(*    undefined is absent from the record.                                 *)
(*  - this.students is a sequence of Student objects.                      *)
(*  - A JSON text is the document it denotes: [garbage |-> TRUE] for text  *)
(*    JSON.parse rejects, otherwise [null |-> TRUE], [number |-> v],       *)
(*    [string |-> s], [object |-> r] or [array |-> <<e1, ..., en>>].       *)
(***************************************************************************)
EXTENDS Integers, Sequences, FiniteSets, TLC

VARIABLES
    students,   \* StudentManager.students
    call,       \* the last call made on the manager: its name and arguments
    pre,        \* this.students when that call was made
    threw,      \* whether that call raised an Error
    result,     \* the array that call returned: getStudents, the data of sort, the
                \* results of search (<<>> for a void or raised call), as the
                \* caller holds it
    json,       \* the text that call returned: saveToJSON (NoText otherwise)
    shared,     \* the array that call returned is the array object this.students
    edits,      \* how many times the caller has changed the returned array
    loop,       \* the local variables of binarySearch or shellSort while it is
                \* followed iteration by iteration (NoLoop otherwise)
    initialized,  \* api/index.ts: the module variable initialized
    pc,           \* api/index.ts: where each invocation of handler stands
    invoked,      \* api/index.ts: how many times registerRoutes was called
    completed     \* api/index.ts: how many of those calls have fulfilled

\* the variables of the serverless handler
handlerVars == <<initialized, pc, invoked, completed>>

vars == <<students, call, pre, threw, result, json, shared, edits, loop, handlerVars>>

----------------------------------------------------------------------------
(* Bounds of the model *)

\* longest initialData handed to the constructor in Spec, and the length
\* up to which addStudent grows the collection there
MaxStudents == 3

\* longest initialData handed to the constructor in SpecSort
MaxSortLen == 4

\* longest initialData handed to the constructor in SpecCrud
MaxCrudLen == 4

\* longest initialData handed to the constructor in SpecSearch
MaxSearchLen == 3

\* length up to which addStudent grows the collection in SpecJson
MaxJsonLen == 2

\* longest initialData handed to the constructor in SpecAlias, and the length
\* up to which the caller grows an array by push there
MaxAliasLen == 2

\* how many changes the caller makes to an array it was handed
MaxEdits == 2

\* longest initialData handed to the constructor in SpecLoop
MaxLoopLen == 3

\* how many requests reach the serverless handler in SpecApi
MaxRequests == 3

\* longest initialData handed to the constructor in SpecOrder
MaxOrderLen == 3

----------------------------------------------------------------------------
(* JavaScript values *)

Num(v) == [num |-> v]
NaN == [nan |-> TRUE]
Null == [null |-> TRUE]

\* ToNumber on a gpa value that is not NaN: null converts to 0
ToNumber(a) == IF a = Null THEN 0 ELSE a.num

\* a < b on two gpa values: false whenever either is NaN
NumLt(a, b) == a # NaN /\ b # NaN /\ ToNumber(a) < ToNumber(b)

\* a < b on two strings: by UTF-16 code units, a proper prefix first
RECURSIVE StrLt(_, _)
StrLt(a, b) ==
    IF b = <<>> THEN FALSE
    ELSE IF a = <<>> THEN TRUE
    ELSE IF Head(a) # Head(b) THEN Head(a) < Head(b)
    ELSE StrLt(Tail(a), Tail(b))

\* String.prototype.toLowerCase on the ASCII range: A-Z (65..90) to a-z
toLowerCase(s) == [i \in 1..Len(s) |-> IF s[i] \in 65..90 THEN s[i] + 32 ELSE s[i]]

\* String.prototype.includes: q occurs in s as a contiguous substring
includes(s, q) ==
    \E i \in 0..(Len(s) - Len(q)) : SubSeq(s, i + 1, i + Len(q)) = q

\* String.prototype.localeCompare on lower-cased strings of ASCII letters and
\* digits, where the collation order coincides with code-unit order
localeCompare(x, y) == IF StrLt(x, y) THEN -1 ELSE IF StrLt(y, x) THEN 1 ELSE 0

\* JavaScript truthiness of a string held as code units, of an opaque string
\* and of a number
TruthyStr(s) == s # <<>>
TruthyTok(s) == s # ""
TruthyNum(g) == g # NaN /\ g # Null /\ g # Num(0)

----------------------------------------------------------------------------
(* student.ts *)

\* the properties of StudentData
Fields == {"id", "name", "nim", "major", "gpa"}

\* new Student(data): copies the five fields, a property data lacks staying
\* undefined; ref is the new object's identity
Student(data, ref) ==
    [f \in {"ref"} \cup (Fields \cap DOMAIN data) |->
        IF f = "ref" THEN ref ELSE data[f]]

\* Student.toJSON(): the plain data bag of the five fields
toJSON(s) == [f \in Fields \cap DOMAIN s |-> s[f]]

\* the identities of the objects held by an array, in array order
Refs(arr) == [i \in 1..Len(arr) |-> arr[i].ref]

\* identity of a Student object allocated while the objects of arr are alive
FreshRef(arr) ==
    CHOOSE r \in 1..(Len(arr) + 1) : \A i \in 1..Len(arr) : arr[i].ref # r

\* identities of n Student objects allocated one after the other while the
\* objects of arr are alive
FreshRefs(arr, n) ==
    LET used == {arr[i].ref : i \in 1..Len(arr)}
        free == (1..(Len(arr) + n)) \ used
    IN  [k \in 1..n |-> CHOOSE r \in free : Cardinality({q \in free : q <= r}) = k]

\* initialData.map(d => new Student(d))
MapNewStudent(initialData) ==
    [i \in 1..Len(initialData) |-> Student(initialData[i], i)]

----------------------------------------------------------------------------
(* student-manager.ts: the comparator and the five sorting algorithms.     *)
(* Loop indices are the code's 0-based indices; arr[j] of the code is      *)
(* arr[j + 1] here.                                                        *)

\* valA < valB for the values of field key: numbers for gpa, strings otherwise
ValLt(valA, valB, key) ==
    IF key = "gpa" THEN NumLt(valA, valB) ELSE StrLt(valA, valB)

\* compare without the negation for desc: return result
compareIgnoringOrder(a, b, key, order) ==
    LET valA == a[key]
        valB == b[key]
        r1 == IF ValLt(valA, valB, key) THEN -1 ELSE 0
    IN  IF ValLt(valB, valA, key) THEN 1 ELSE r1

compare(a, b, key, order) ==
    LET valA == a[key]
        valB == b[key]
        r1 == IF ValLt(valA, valB, key) THEN -1 ELSE 0
        res == IF ValLt(valB, valA, key) THEN 1 ELSE r1
    IN  IF order = "asc" THEN res ELSE -res

\* Swap written without the temporary: arr[x] = arr[y]; arr[y] = arr[x]
SwapOverwrite(arr, x, y) == [arr EXCEPT ![x + 1] = arr[y + 1]]

\* [arr[x], arr[y]] = [arr[y], arr[x]]
Swap(arr, x, y) == [arr EXCEPT ![x + 1] = arr[y + 1], ![y + 1] = arr[x + 1]]

RECURSIVE bubbleInner(_, _, _, _, _)
bubbleInner(arr, i, j, key, order) ==
    IF j < Len(arr) - i - 1
    THEN LET nxt == IF compare(arr[j + 1], arr[j + 2], key, order) > 0
                    THEN Swap(arr, j, j + 1) ELSE arr
         IN  bubbleInner(nxt, i, j + 1, key, order)
    ELSE arr

RECURSIVE bubbleOuter(_, _, _, _)
bubbleOuter(arr, i, key, order) ==
    IF i < Len(arr) - 1
    THEN bubbleOuter(bubbleInner(arr, i, 0, key, order), i + 1, key, order)
    ELSE arr

bubbleSort(arr, key, order) == bubbleOuter(arr, 0, key, order)

\* the inner loop of selectionSort: the final min_idx
RECURSIVE selectionMin(_, _, _, _, _)
selectionMin(arr, j, min_idx, key, order) ==
    IF j < Len(arr)
    THEN selectionMin(arr, j + 1,
                      IF compare(arr[j + 1], arr[min_idx + 1], key, order) < 0
                      THEN j ELSE min_idx,
                      key, order)
    ELSE min_idx

RECURSIVE selectionOuter(_, _, _, _)
selectionOuter(arr, i, key, order) ==
    IF i < Len(arr) - 1
    THEN LET min_idx == selectionMin(arr, i + 1, i, key, order)
         IN  selectionOuter(Swap(arr, i, min_idx), i + 1, key, order)
    ELSE arr

selectionSort(arr, key, order) == selectionOuter(arr, 0, key, order)

\* the while loop of insertionSort followed by arr[j + 1] = current
RECURSIVE insertionShift(_, _, _, _, _)
insertionShift(arr, j, current, key, order) ==
    IF j > -1 /\ compare(arr[j + 1], current, key, order) > 0
    THEN insertionShift([arr EXCEPT ![j + 2] = arr[j + 1]], j - 1, current, key, order)
    ELSE [arr EXCEPT ![j + 2] = current]

RECURSIVE insertionOuter(_, _, _, _)
insertionOuter(arr, i, key, order) ==
    IF i < Len(arr)
    THEN insertionOuter(insertionShift(arr, i - 1, arr[i + 1], key, order),
                        i + 1, key, order)
    ELSE arr

insertionSort(arr, key, order) == insertionOuter(arr, 1, key, order)

\* the while loop of merge followed by the two concat calls
RECURSIVE mergeLoop(_, _, _, _, _, _, _)
mergeLoop(left, right, leftIndex, rightIndex, resultArray, key, order) ==
    IF leftIndex < Len(left) /\ rightIndex < Len(right)
    THEN IF compare(left[leftIndex + 1], right[rightIndex + 1], key, order) < 0
         THEN mergeLoop(left, right, leftIndex + 1, rightIndex,
                        Append(resultArray, left[leftIndex + 1]), key, order)
         ELSE mergeLoop(left, right, leftIndex, rightIndex + 1,
                        Append(resultArray, right[rightIndex + 1]), key, order)
    ELSE resultArray \o SubSeq(left, leftIndex + 1, Len(left))
                     \o SubSeq(right, rightIndex + 1, Len(right))

merge(left, right, key, order) == mergeLoop(left, right, 0, 0, <<>>, key, order)

RECURSIVE mergeSort(_, _, _)
mergeSort(arr, key, order) ==
    IF Len(arr) <= 1 THEN arr
    ELSE LET mid == Len(arr) \div 2
             left == mergeSort(SubSeq(arr, 1, mid), key, order)
             right == mergeSort(SubSeq(arr, mid + 1, Len(arr)), key, order)
         IN  merge(left, right, key, order)

\* the innermost for loop of shellSort followed by arr[j] = temp
RECURSIVE shellShift(_, _, _, _, _, _)
shellShift(arr, gap, j, temp, key, order) ==
    IF j >= gap /\ compare(arr[j - gap + 1], temp, key, order) > 0
    THEN shellShift([arr EXCEPT ![j + 1] = arr[j - gap + 1]], gap, j - gap, temp, key, order)
    ELSE [arr EXCEPT ![j + 1] = temp]

RECURSIVE shellPass(_, _, _, _, _)
shellPass(arr, gap, i, key, order) ==
    IF i < Len(arr)
    THEN shellPass(shellShift(arr, gap, i, arr[i + 1], key, order), gap, i + 1, key, order)
    ELSE arr

RECURSIVE shellGaps(_, _, _, _)
shellGaps(arr, gap, key, order) ==
    IF gap > 0
    THEN shellGaps(shellPass(arr, gap, gap, key, order), gap \div 2, key, order)
    ELSE arr

shellSort(arr, key, order) == shellGaps(arr, Len(arr) \div 2, key, order)

SortAlgorithm == {"bubble", "selection", "insertion", "merge", "shell"}
SortKey == {"gpa", "name", "nim"}
SortOrder == {"asc", "desc"}

\* the switch of StudentManager.sort
SortWith(algorithm, arr, key, order) ==
    CASE algorithm = "bubble" -> bubbleSort(arr, key, order)
      [] algorithm = "selection" -> selectionSort(arr, key, order)
      [] algorithm = "insertion" -> insertionSort(arr, key, order)
      [] algorithm = "merge" -> mergeSort(arr, key, order)
      [] algorithm = "shell" -> shellSort(arr, key, order)

----------------------------------------------------------------------------
(* student-manager.ts: searching *)

RECURSIVE binaryLoop(_, _, _, _)
binaryLoop(arr, x, l, r) ==
    IF l <= r
    THEN LET m == l + ((r - l) \div 2)
             res == localeCompare(toLowerCase(x), toLowerCase(arr[m + 1].name))
         IN  IF res = 0 THEN m
             ELSE IF res > 0 THEN binaryLoop(arr, x, m + 1, r)
             ELSE binaryLoop(arr, x, l, m - 1)
    ELSE -1

\* binarySearch that returns the insertion point l instead of -1 on a miss
binarySearchLowerBound(arr, x) ==
    LET RECURSIVE iterate(_, _)
        iterate(l, r) ==
            IF l <= r
            THEN LET m == l + ((r - l) \div 2)
                     res == localeCompare(toLowerCase(x), toLowerCase(arr[m + 1].name))
                 IN  IF res = 0 THEN m
                     ELSE IF res > 0 THEN iterate(m + 1, r) ELSE iterate(l, m - 1)
            ELSE IF l < Len(arr) THEN l ELSE -1
    IN  iterate(0, Len(arr) - 1)

\* binarySearch that answers an empty query with the first record
binarySearchEmptyFirst(arr, x) ==
    IF x = <<>> /\ arr # <<>> THEN 0 ELSE binaryLoop(arr, x, 0, Len(arr) - 1)

binarySearch(arr, x) == binaryLoop(arr, x, 0, Len(arr) - 1)

\* the filter predicate with the query left in its own case
LinearMatchCaseSensitive(s, query) ==
    \/ includes(toLowerCase(s.name), query)
    \/ includes(s.nim, query)

\* the predicate of the filter in the linear / sequential branch
LinearMatch(s, query) ==
    \/ includes(toLowerCase(s.name), toLowerCase(query))
    \/ includes(s.nim, query)

SearchAlgorithm == {"linear", "binary", "sequential"}

SearchResults(arr, query, algorithm) ==
    IF algorithm = "linear" \/ algorithm = "sequential"
    THEN LET Keep(s) == LinearMatch(s, query) IN SelectSeq(arr, Keep)
    ELSE IF algorithm = "binary"
    THEN LET sorted == mergeSort(arr, "name", "asc")
             index == binarySearch(sorted, query)
         IN  IF index # -1 THEN <<sorted[index + 1]>> ELSE <<>>
    ELSE <<>>

----------------------------------------------------------------------------
(* student-manager.ts: the operations of StudentManager, one action each *)

\* the pattern without its anchors, /\d+/: some character is a digit
NimPatternUnanchored(nim) == \E i \in 1..Len(nim) : nim[i] \in 48..57

\* /^\d+$/.test(nim): one or more characters, each of them 0-9 (48..57)
NimPattern(nim) == Len(nim) > 0 /\ \A i \in 1..Len(nim) : nim[i] \in 48..57

\* find running from the end of the array: the position of the last Student
\* with that id
FindLastById(arr, id) ==
    IF \E i \in 1..Len(arr) : arr[i].id = id
    THEN CHOOSE i \in 1..Len(arr) :
            arr[i].id = id /\ \A k \in (i + 1)..Len(arr) : arr[k].id # id
    ELSE 0

\* this.students.find(s => s.id === id): the 1-based position of the first
\* Student with that id, 0 when find returns undefined
FindById(arr, id) ==
    IF \E i \in 1..Len(arr) : arr[i].id = id
    THEN CHOOSE i \in 1..Len(arr) :
            arr[i].id = id /\ \A k \in 1..(i - 1) : arr[k].id # id
    ELSE 0

\* the four guarded assignments of updateStudent, applied to one Student
Has(data, f) == f \in DOMAIN data

\* the assignments guarded by presence (data.f !== undefined), not truthiness
ApplyPartialIfPresent(s, data) ==
    [s EXCEPT
        !.name = IF Has(data, "name") THEN data.name ELSE @,
        !.nim = IF Has(data, "nim") THEN data.nim ELSE @,
        !.major = IF Has(data, "major") THEN data.major ELSE @,
        !.gpa = IF Has(data, "gpa") THEN data.gpa ELSE @]

\* the guarded assignments with a fifth one for id: if (data.id) id = data.id
ApplyPartialWithId(s, data) ==
    [s EXCEPT
        !.id = IF Has(data, "id") /\ TruthyTok(data.id) THEN data.id ELSE @,
        !.name = IF Has(data, "name") /\ TruthyStr(data.name) THEN data.name ELSE @,
        !.nim = IF Has(data, "nim") /\ TruthyStr(data.nim) THEN data.nim ELSE @,
        !.major = IF Has(data, "major") /\ TruthyTok(data.major) THEN data.major ELSE @,
        !.gpa = IF Has(data, "gpa") /\ TruthyNum(data.gpa) THEN data.gpa ELSE @]

ApplyPartial(s, data) ==
    [s EXCEPT
        !.name = IF Has(data, "name") /\ TruthyStr(data.name) THEN data.name ELSE @,
        !.nim = IF Has(data, "nim") /\ TruthyStr(data.nim) THEN data.nim ELSE @,
        !.major = IF Has(data, "major") /\ TruthyTok(data.major) THEN data.major ELSE @,
        !.gpa = IF Has(data, "gpa") /\ TruthyNum(data.gpa) THEN data.gpa ELSE @]

\* removal of the first Student with that id only (findIndex and splice)
RemoveFirstById(arr, id) ==
    LET Keep(i) == \E k \in 1..(i - 1) : arr[k].id = id
        K == {i \in 1..Len(arr) : arr[i].id # id \/ Keep(i)}
    IN  [n \in 1..Cardinality(K) |->
            arr[CHOOSE i \in K : Cardinality({k \in K : k <= i}) = n]]

\* this.students.filter(s => s.id !== id)
FilterOutId(arr, id) == LET Keep(s) == s.id # id IN SelectSeq(arr, Keep)

\* no text: the value of json after a call that returns no text
NoText == [none |-> TRUE]

\* a text that JSON.parse rejects with a SyntaxError
Garbage == [garbage |-> TRUE]

\* JSON.stringify of the array of bags: one object per bag in array order; a
\* property that is undefined is left out and a NaN is written as null.
\* Strings and finite numbers are written so that JSON.parse reads them back.
stringify(bags) ==
    [array |->
        [i \in 1..Len(bags) |->
            [object |->
                [f \in DOMAIN bags[i] |->
                    IF f = "gpa" /\ bags[i][f] = NaN THEN Null ELSE bags[i][f]]]]]

\* d.id, d.name, ... of a parsed entry d that is not null: the properties of an
\* object, and undefined for each of them when d is a number or a string
Props(d) == IF "object" \in DOMAIN d THEN d.object ELSE <<>>

\* the try block of loadFromJSON raises: JSON.parse rejects the text, the
\* parsed value has no map method, or an entry is null and d.id raises
LoadRaises(text) ==
    \/ text = Garbage
    \/ "array" \notin DOMAIN text
    \/ \E i \in 1..Len(text.array) : text.array[i] = Null

constructor(initialData) ==
    /\ students = MapNewStudent(initialData)
    /\ call = [op |-> "constructor", initialData |-> initialData]
    /\ pre = <<>>
    /\ threw = FALSE
    /\ result = <<>>
    /\ json = NoText
    /\ shared = FALSE
    /\ edits = 0

\* getStudents that returns this.students itself, without the spread copy
getStudentsNoCopy ==
    /\ call' = [op |-> "getStudents"]
    /\ pre' = students
    /\ json' = NoText
    /\ shared' = TRUE
    /\ edits' = 0
    /\ UNCHANGED <<loop, handlerVars>>
    /\ threw' = FALSE
    /\ result' = students
    /\ UNCHANGED students

\* [...this.students]: a new array object holding the same Student objects
getStudents ==
    /\ call' = [op |-> "getStudents"]
    /\ pre' = students
    /\ json' = NoText
    /\ shared' = FALSE
    /\ edits' = 0
    /\ UNCHANGED <<loop, handlerVars>>
    /\ threw' = FALSE
    /\ result' = students
    /\ UNCHANGED students

\* addStudent that skips a data bag whose id is already in the collection
addStudentUnlessDuplicate(data) ==
    /\ call' = [op |-> "addStudent", data |-> data]
    /\ pre' = students
    /\ json' = NoText
    /\ shared' = FALSE
    /\ edits' = 0
    /\ UNCHANGED <<loop, handlerVars>>
    /\ result' = <<>>
    /\ IF ~NimPattern(data.nim)
       THEN /\ threw' = TRUE
            /\ UNCHANGED students
       ELSE /\ threw' = FALSE
            /\ students' = IF \E i \in 1..Len(students) : students[i].id = data.id
                           THEN students
                           ELSE Append(students, Student(data, FreshRef(students \o result)))

addStudent(data) ==
    /\ call' = [op |-> "addStudent", data |-> data]
    /\ pre' = students
    /\ json' = NoText
    /\ shared' = FALSE
    /\ edits' = 0
    /\ UNCHANGED <<loop, handlerVars>>
    /\ result' = <<>>
    /\ IF ~NimPattern(data.nim)
       THEN /\ threw' = TRUE
            /\ UNCHANGED students
       ELSE /\ threw' = FALSE
            /\ students' = Append(students, Student(data, FreshRef(students \o result)))

\* updateStudent without the throw: a missing id is silently ignored
updateStudentIgnoreMissing(id, data) ==
    /\ call' = [op |-> "updateStudent", id |-> id, data |-> data]
    /\ pre' = students
    /\ json' = NoText
    /\ shared' = FALSE
    /\ edits' = 0
    /\ UNCHANGED <<loop, handlerVars>>
    /\ result' = <<>>
    /\ threw' = FALSE
    /\ LET at == FindById(students, id)
       IN  students' = IF at = 0 THEN students
                       ELSE [students EXCEPT ![at] = ApplyPartial(@, data)]

\* updateStudent that validates a new nim like addStudent does
updateStudentValidating(id, data) ==
    /\ call' = [op |-> "updateStudent", id |-> id, data |-> data]
    /\ pre' = students
    /\ json' = NoText
    /\ shared' = FALSE
    /\ edits' = 0
    /\ UNCHANGED <<loop, handlerVars>>
    /\ result' = <<>>
    /\ LET at == FindById(students, id)
       IN  IF at = 0 \/ (Has(data, "nim") /\ TruthyStr(data.nim) /\ ~NimPattern(data.nim))
           THEN /\ threw' = TRUE
                /\ UNCHANGED students
           ELSE /\ threw' = FALSE
                /\ students' = [students EXCEPT ![at] = ApplyPartial(@, data)]

updateStudent(id, data) ==
    /\ call' = [op |-> "updateStudent", id |-> id, data |-> data]
    /\ pre' = students
    /\ json' = NoText
    /\ shared' = FALSE
    /\ edits' = 0
    /\ UNCHANGED <<loop, handlerVars>>
    /\ result' = <<>>
    /\ LET at == FindById(students, id)
       IN  IF at = 0
           THEN /\ threw' = TRUE
                /\ UNCHANGED students
           ELSE /\ threw' = FALSE
                /\ students' = [students EXCEPT ![at] = ApplyPartial(@, data)]

deleteStudent(id) ==
    /\ call' = [op |-> "deleteStudent", id |-> id]
    /\ pre' = students
    /\ json' = NoText
    /\ shared' = FALSE
    /\ edits' = 0
    /\ UNCHANGED <<loop, handlerVars>>
    /\ threw' = FALSE
    /\ result' = <<>>
    /\ students' = FilterOutId(students, id)

\* sort without the write-back this.students = sorted
sortWithoutWriteBack(algorithm, key, order) ==
    /\ call' = [op |-> "sort", algorithm |-> algorithm, key |-> key, order |-> order]
    /\ pre' = students
    /\ json' = NoText
    /\ shared' = FALSE
    /\ edits' = 0
    /\ UNCHANGED <<loop, handlerVars>>
    /\ threw' = FALSE
    /\ result' = SortWith(algorithm, students, key, order)
    /\ UNCHANGED students

\* sorted is stored in this.students and returned as data: one array object
sort(algorithm, key, order) ==
    /\ call' = [op |-> "sort", algorithm |-> algorithm, key |-> key, order |-> order]
    /\ pre' = students
    /\ json' = NoText
    /\ edits' = 0
    /\ UNCHANGED <<loop, handlerVars>>
    /\ threw' = FALSE
    /\ LET sorted == SortWith(algorithm, students, key, order)
       IN  /\ students' = sorted
           /\ result' = sorted
           /\ shared' = TRUE

\* search whose binary branch sorts this.students itself, not a copy
searchPersistingSort(query, algorithm) ==
    /\ call' = [op |-> "search", query |-> query, algorithm |-> algorithm]
    /\ pre' = students
    /\ json' = NoText
    /\ shared' = FALSE
    /\ edits' = 0
    /\ UNCHANGED <<loop, handlerVars>>
    /\ threw' = FALSE
    /\ result' = SearchResults(students, query, algorithm)
    /\ students' = IF algorithm = "binary" THEN mergeSort(students, "name", "asc")
                   ELSE students

search(query, algorithm) ==
    /\ call' = [op |-> "search", query |-> query, algorithm |-> algorithm]
    /\ pre' = students
    /\ json' = NoText
    /\ shared' = FALSE
    /\ edits' = 0
    /\ UNCHANGED <<loop, handlerVars>>
    /\ threw' = FALSE
    /\ result' = SearchResults(students, query, algorithm)
    /\ UNCHANGED students

saveToJSON ==
    /\ call' = [op |-> "saveToJSON"]
    /\ pre' = students
    /\ json' = stringify([i \in 1..Len(students) |-> toJSON(students[i])])
    /\ shared' = FALSE
    /\ edits' = 0
    /\ UNCHANGED <<loop, handlerVars>>
    /\ threw' = FALSE
    /\ result' = <<>>
    /\ UNCHANGED students

\* loadFromJSON that validates like addStudent: an entry whose nim is not
\* digits-only is left out
loadFromJSONValidating(text) ==
    /\ call' = [op |-> "loadFromJSON", text |-> text]
    /\ pre' = students
    /\ json' = NoText
    /\ shared' = FALSE
    /\ edits' = 0
    /\ UNCHANGED <<loop, handlerVars>>
    /\ result' = <<>>
    /\ IF LoadRaises(text)
       THEN /\ threw' = TRUE
            /\ UNCHANGED students
       ELSE /\ threw' = FALSE
            /\ LET Valid(d) == "nim" \in DOMAIN Props(d) /\ NimPattern(Props(d).nim)
                   data == SelectSeq(text.array, Valid)
                   refs == FreshRefs(students \o result, Len(data))
               IN  students' = [i \in 1..Len(data) |-> Student(Props(data[i]), refs[i])]

\* loadFromJSON that stores each Student as soon as it is built: the entries
\* before a null stay imported when the null makes the call raise
loadFromJSONIncremental(text) ==
    /\ call' = [op |-> "loadFromJSON", text |-> text]
    /\ pre' = students
    /\ json' = NoText
    /\ shared' = FALSE
    /\ edits' = 0
    /\ UNCHANGED <<loop, handlerVars>>
    /\ result' = <<>>
    /\ threw' = LoadRaises(text)
    /\ IF text = Garbage \/ "array" \notin DOMAIN text
       THEN UNCHANGED students
       ELSE LET all == text.array
                n == IF LoadRaises(text)
                     THEN (CHOOSE i \in 1..Len(all) :
                              all[i] = Null /\ \A k \in 1..(i - 1) : all[k] # Null) - 1
                     ELSE Len(all)
                refs == FreshRefs(students \o result, n)
            IN  students' = [i \in 1..n |-> Student(Props(all[i]), refs[i])]

\* the catch block turns whatever the try block raised into
\* Error("Gagal membaca file"); this.students is assigned only after map
\* has returned
loadFromJSON(text) ==
    /\ call' = [op |-> "loadFromJSON", text |-> text]
    /\ pre' = students
    /\ json' = NoText
    /\ shared' = FALSE
    /\ edits' = 0
    /\ UNCHANGED <<loop, handlerVars>>
    /\ result' = <<>>
    /\ IF LoadRaises(text)
       THEN /\ threw' = TRUE
            /\ UNCHANGED students
       ELSE /\ threw' = FALSE
            /\ LET data == text.array
                   refs == FreshRefs(students \o result, Len(data))
               IN  students' = [i \in 1..Len(data) |-> Student(Props(data[i]), refs[i])]

----------------------------------------------------------------------------
(* student-manager.ts: binarySearch and shellSort followed iteration by    *)
(* iteration.  loop holds the local variables of the running function;     *)
(* one action is one evaluation of the loop condition together with the    *)
(* loop body it admits.                                                    *)

NoLoop == [fn |-> "none"]

\* search's binary branch reaches binarySearch(sorted, query): l = 0,
\* r = arr.length - 1
binarySearchCall(x) ==
    /\ loop.fn = "none"
    /\ LET sorted == mergeSort(students, "name", "asc")
       IN  loop' = [fn |-> "binarySearch", arr |-> sorted, x |-> x,
                    l |-> 0, r |-> Len(sorted) - 1, done |-> FALSE, ret |-> -1]
    /\ UNCHANGED <<students, call, pre, threw, result, json, shared, edits, handlerVars>>

\* the iteration with l = m in place of l = m + 1
binarySearchIterateNoShrink ==
    /\ loop.fn = "binarySearch"
    /\ ~loop.done
    /\ IF loop.l <= loop.r
       THEN LET m == loop.l + ((loop.r - loop.l) \div 2)
                res == localeCompare(toLowerCase(loop.x), toLowerCase(loop.arr[m + 1].name))
            IN  loop' = IF res = 0 THEN [loop EXCEPT !.done = TRUE, !.ret = m]
                        ELSE IF res > 0 THEN [loop EXCEPT !.l = m]
                        ELSE [loop EXCEPT !.r = m - 1]
       ELSE loop' = [loop EXCEPT !.done = TRUE, !.ret = -1]
    /\ UNCHANGED <<students, call, pre, threw, result, json, shared, edits, handlerVars>>

\* while (l <= r) { ... }: one iteration, or the exit with return -1
binarySearchIterate ==
    /\ loop.fn = "binarySearch"
    /\ ~loop.done
    /\ IF loop.l <= loop.r
       THEN LET m == loop.l + ((loop.r - loop.l) \div 2)
                res == localeCompare(toLowerCase(loop.x), toLowerCase(loop.arr[m + 1].name))
            IN  loop' = IF res = 0 THEN [loop EXCEPT !.done = TRUE, !.ret = m]
                        ELSE IF res > 0 THEN [loop EXCEPT !.l = m + 1]
                        ELSE [loop EXCEPT !.r = m - 1]
       ELSE loop' = [loop EXCEPT !.done = TRUE, !.ret = -1]
    /\ UNCHANGED <<students, call, pre, threw, result, json, shared, edits, handlerVars>>

\* sort reaches shellSort(sorted, key, order) with sorted = [...this.students]:
\* gap = Math.floor(n / 2)
shellSortCall(key, order) ==
    /\ loop.fn = "none"
    /\ loop' = [fn |-> "shellSort", arr |-> students, key |-> key, order |-> order,
                gap |-> Len(students) \div 2, done |-> FALSE]
    /\ UNCHANGED <<students, call, pre, threw, result, json, shared, edits, handlerVars>>

\* for (gap = ...; gap > 0; gap = Math.floor(gap / 2)) { ... }: one pass over
\* the array with the current gap, or the exit with return arr
shellSortIterate ==
    /\ loop.fn = "shellSort"
    /\ ~loop.done
    /\ IF loop.gap > 0
       THEN loop' = [loop EXCEPT
                        !.arr = shellPass(loop.arr, loop.gap, loop.gap, loop.key, loop.order),
                        !.gap = loop.gap \div 2]
       ELSE loop' = [loop EXCEPT !.done = TRUE]
    /\ UNCHANGED <<students, call, pre, threw, result, json, shared, edits, handlerVars>>

\* the function returns to its caller
loopReturn ==
    /\ loop.fn # "none"
    /\ loop.done
    /\ loop' = NoLoop
    /\ UNCHANGED <<students, call, pre, threw, result, json, shared, edits, handlerVars>>

----------------------------------------------------------------------------
(* api/index.ts: the serverless handler.  app(req, res) has been called    *)
(* for request h when pc[h] = "done".  registerRoutes is imported from     *)
(* server/index: its promise is fulfilled or rejected at some later time.  *)

Requests == 1..MaxRequests

\* let initialized = false, and no request has arrived
moduleLoad ==
    /\ initialized = FALSE
    /\ pc = [h \in Requests |-> "idle"]
    /\ invoked = 0
    /\ completed = 0

\* handler that starts registerRoutes without awaiting it
handlerNoAwait(h) ==
    /\ pc[h] = "idle"
    /\ IF ~initialized
       THEN /\ invoked' = invoked + 1
            /\ initialized' = TRUE
       ELSE UNCHANGED <<initialized, invoked>>
    /\ pc' = [pc EXCEPT ![h] = "done"]
    /\ UNCHANGED <<completed, students, call, pre, threw, result, json, shared, edits, loop>>

\* handler(req, res) up to its first suspension: the test of initialized, then
\* either the call of registerRoutes and the await, or app(req, res)
handler(h) ==
    /\ pc[h] = "idle"
    /\ IF ~initialized
       THEN /\ invoked' = invoked + 1
            /\ pc' = [pc EXCEPT ![h] = "awaiting"]
       ELSE /\ pc' = [pc EXCEPT ![h] = "done"]
            /\ UNCHANGED invoked
    /\ UNCHANGED <<initialized, completed, students, call, pre, threw, result, json, shared, edits, loop>>

\* the promise of the registerRoutes call made for h is fulfilled
registerRoutesFulfils(h) ==
    /\ pc[h] = "awaiting"
    /\ completed' = completed + 1
    /\ pc' = [pc EXCEPT ![h] = "resumable"]
    /\ UNCHANGED <<initialized, invoked, students, call, pre, threw, result, json, shared, edits, loop>>

\* the promise of the registerRoutes call made for h is rejected: the await
\* raises and handler ends without reaching initialized = true
registerRoutesRejects(h) ==
    /\ pc[h] = "awaiting"
    /\ pc' = [pc EXCEPT ![h] = "failed"]
    /\ UNCHANGED <<initialized, invoked, completed, students, call, pre, threw, result, json, shared, edits, loop>>

\* handler resumes after the await: initialized = true; app(req, res)
handlerResume(h) ==
    /\ pc[h] = "resumable"
    /\ initialized' = TRUE
    /\ pc' = [pc EXCEPT ![h] = "done"]
    /\ UNCHANGED <<invoked, completed, students, call, pre, threw, result, json, shared, edits, loop>>

\* the client module and the handler module have been loaded
Loaded == loop = NoLoop /\ moduleLoad

----------------------------------------------------------------------------
(* The caller: what the code that received an array from getStudents, sort *)
(* or search can do with it.  An array object that is this.students shows  *)
(* every change in this.students; a Student object shows every change in   *)
(* each array that holds it.                                               *)

\* the array and the objects of arr after object obj has changed
WriteObject(arr, obj) ==
    [i \in 1..Len(arr) |-> IF arr[i].ref = obj.ref THEN obj ELSE arr[i]]

\* the caller holds an array that the last call returned
HoldsArray == call.op \in {"getStudents", "sort", "search"} /\ ~threw

\* the caller replaces the contents of the array it holds by arr
callerWrites(arr) ==
    /\ result' = arr
    /\ students' = IF shared THEN arr ELSE students
    /\ edits' = edits + 1
    /\ UNCHANGED <<call, pre, threw, json, shared, loop, handlerVars>>

\* result.push(new Student(data))
callerPush(data) ==
    /\ HoldsArray
    /\ edits < MaxEdits
    /\ Len(result) < MaxAliasLen
    /\ callerWrites(Append(result, Student(data, FreshRef(students \o result))))

\* result.pop()
callerPop ==
    /\ HoldsArray
    /\ edits < MaxEdits
    /\ result # <<>>
    /\ callerWrites(SubSeq(result, 1, Len(result) - 1))

\* result.reverse()
callerReverse ==
    /\ HoldsArray
    /\ edits < MaxEdits
    /\ callerWrites([i \in 1..Len(result) |-> result[Len(result) + 1 - i]])

\* result[i].name = name, through Student's setter (i is 0-based)
callerSetName(i, name) ==
    /\ HoldsArray
    /\ edits < MaxEdits
    /\ i < Len(result)
    /\ LET obj == [result[i + 1] EXCEPT !.name = name]
       IN  /\ result' = WriteObject(result, obj)
           /\ students' = WriteObject(students, obj)
    /\ edits' = edits + 1
    /\ UNCHANGED <<call, pre, threw, json, shared, loop, handlerVars>>

----------------------------------------------------------------------------
(* Inputs *)

\* all sequences over S of length at most n
SeqsUpTo(S, n) == UNION {[1..k -> S] : k \in 0..n}

StudentData(id, name, nim, major, gpa) ==
    [id |-> id, name |-> name, nim |-> nim, major |-> major, gpa |-> gpa]

Ids == {"s1", "s2", "s3"}

\* "Ab" / "12" / 3.5,  "b" / "7" / 3.5,  "a" / "1a" / 2.0 (same id as the first)
Bags ==
    { StudentData("s1", <<65, 98>>, <<49, 50>>, "X", Num(35)),
      StudentData("s2", <<98>>, <<55>>, "X", Num(35)),
      StudentData("s1", <<97>>, <<49, 97>>, "Y", Num(20)) }

\* what the dashboard's edit form sends: a gpa alone, here 3.5 and 0; and a
\* partial that carries an id next to the gpa
MainPartials == { [gpa |-> Num(35)], [gpa |-> Num(0)], [id |-> "s3", gpa |-> Num(35)] }

MainSorts ==
    { <<"bubble", "name", "asc">>, <<"selection", "gpa", "asc">>,
      <<"insertion", "nim", "desc">>, <<"merge", "gpa", "desc">>,
      <<"shell", "name", "desc">> }

\* "b" and "zz"
MainQueries == { <<98>>, <<122, 122>> }

\* "Ab" / "2" / 3.5,  "a" / "10" / 3.5,  "a" / "2" / 1.0,  "B" / "3" / NaN
SortBags ==
    { StudentData("s1", <<65, 98>>, <<50>>, "X", Num(35)),
      StudentData("s2", <<97>>, <<49, 48>>, "X", Num(35)),
      StudentData("s3", <<97>>, <<50>>, "X", Num(10)),
      StudentData("s4", <<66>>, <<51>>, "X", NaN) }

\* "Ab" / "12" / 3.5,  "b" / "7" / 2.0 (same id),  "a" / "12" / 0 (same nim),
\* "b" / "1a" / NaN
CrudBags ==
    { StudentData("s1", <<65, 98>>, <<49, 50>>, "X", Num(35)),
      StudentData("s1", <<98>>, <<55>>, "Y", Num(20)),
      StudentData("s2", <<97>>, <<49, 50>>, "X", Num(0)),
      StudentData("s2", <<98>>, <<49, 97>>, "X", NaN) }

\* the bags above, and "c" / "" / 1.0 and "c" / "12a34" / 1.0
AddInputs ==
    CrudBags \cup
    { StudentData("s3", <<99>>, <<>>, "X", Num(10)),
      StudentData("s3", <<99>>, <<49, 50, 97, 51, 52>>, "X", Num(10)) }

\* Partial<StudentData>: a record of the fields that are present
Partials ==
    { [id |-> "s9"],
      [name |-> <<66>>],
      [gpa |-> Num(0)],
      [gpa |-> NaN],
      [name |-> <<>>, nim |-> <<>>, major |-> "", gpa |-> Num(0)],
      [name |-> <<66>>, nim |-> <<49, 97>>, major |-> "Z", gpa |-> Num(40)],
      [nim |-> <<57>>, major |-> ""],
      [major |-> "Z", gpa |-> Num(0)],
      [id |-> "s9", name |-> <<>>, gpa |-> Num(40)],
      [nim |-> <<49, 97>>] }

\* "Alice Smith"-like names: "Ab", "AB c", "b1", "a", ""; nims "12", "21",
\* "1a", "", "3"
SearchBags ==
    { StudentData("s5", <<>>, <<51>>, "X", Num(10)),
      StudentData("s1", <<65, 98>>, <<49, 50>>, "X", Num(35)),
      StudentData("s2", <<65, 66, 32, 99>>, <<50, 49>>, "X", Num(35)),
      StudentData("s3", <<98, 49>>, <<49, 97>>, "X", Num(10)),
      StudentData("s4", <<97>>, <<>>, "X", Num(10)) }

\* "", "ab", "AB", "b", "1", "a", "A", "21", "zz"
Queries ==
    { <<>>, <<97, 98>>, <<65, 66>>, <<98>>, <<49>>, <<97>>, <<65>>, <<50, 49>>,
      <<122, 122>> }

\* "Ab" / "12" / 3.5,  "b" / "7" / NaN (what parseFloat("") hands the add
\* form),  "c" / "1a" / 1.0
JsonBags ==
    { StudentData("s1", <<65, 98>>, <<49, 50>>, "X", Num(35)),
      StudentData("s2", <<98>>, <<55>>, "X", NaN),
      StudentData("s3", <<99>>, <<49, 97>>, "X", Num(10)) }

\* entries of a JSON array: a full bag, a full bag with nim "1a" and a null
\* gpa, and an object with an id alone
FullEntry == [object |-> StudentData("s1", <<65, 98>>, <<49, 50>>, "X", Num(35))]
OddNimEntry == [object |-> StudentData("s4", <<100>>, <<49, 97>>, "Y", Null)]
IdOnlyEntry == [object |-> [id |-> "s5"]]

\* arrays handed to loadFromJSON: of bags, and with null, a number or an
\* object that lacks fields among the entries
JsonArrays ==
    { <<>>, <<FullEntry>>, <<FullEntry, OddNimEntry>>, <<Null>>, <<FullEntry, Null>>,
      <<Num(5)>>, <<FullEntry, Num(5)>>, <<IdOnlyEntry>>, <<IdOnlyEntry, OddNimEntry>> }

\* texts handed to loadFromJSON: one that does not parse, the documents
\* null, 5, "a" and a single bag outside an array, and the arrays above
LoadTexts ==
    { Garbage, Null, Num(5), [string |-> <<97>>], FullEntry }
    \cup { [array |-> a] : a \in JsonArrays }

\* "Ab" / "12" / 3.5,  "b" / "7" / 2.0
AliasBags ==
    { StudentData("s1", <<65, 98>>, <<49, 50>>, "X", Num(35)),
      StudentData("s2", <<98>>, <<55>>, "X", Num(20)) }

\* "c" / "9" / 1.0
AliasPushes == { StudentData("s3", <<99>>, <<57>>, "X", Num(10)) }

AliasSorts == { <<"merge", "name", "asc">>, <<"bubble", "gpa", "desc">> }

\* "b"
AliasQueries == { <<98>> }

\* "Z"
AliasNames == { <<90>> }

\* "Ab" / "12" / 3.5,  "b" / "7" / 2.0,  "a" / "3" / 1.0
LoopBags ==
    { StudentData("s1", <<65, 98>>, <<49, 50>>, "X", Num(35)),
      StudentData("s2", <<98>>, <<55>>, "X", Num(20)),
      StudentData("s3", <<97>>, <<51>>, "X", Num(10)) }

\* "b", "zz", "AB"
LoopQueries == { <<98>>, <<122, 122>>, <<65, 66>> }

LoopKeys == { <<"gpa", "asc">>, <<"name", "desc">> }

\* "b" / "5" / 3.5,  "a" / "7" / NaN,  "c" / "6" / 1.0
OrderBags ==
    { StudentData("s1", <<98>>, <<53>>, "X", Num(35)),
      StudentData("s2", <<97>>, <<55>>, "X", NaN),
      StudentData("s3", <<99>>, <<54>>, "X", Num(10)) }

OrderSorts ==
    { <<"bubble", "gpa", "asc">>, <<"merge", "name", "asc">>, <<"shell", "gpa", "desc">> }

----------------------------------------------------------------------------
(* Specifications *)

\* Spec: the manager under any sequence of calls, on small collections
Init ==
    /\ Loaded
    /\ \E initialData \in SeqsUpTo(Bags, MaxStudents) : constructor(initialData)

Next ==
    \/ getStudents
    \/ \E data \in Bags :
          /\ Len(students) < MaxStudents \/ ~NimPattern(data.nim)
          /\ addStudent(data)
    \/ \E id \in Ids, data \in MainPartials : updateStudent(id, data)
    \/ \E id \in Ids : deleteStudent(id)
    \/ \E s \in MainSorts : sort(s[1], s[2], s[3])
    \/ \E query \in MainQueries, algorithm \in SearchAlgorithm : search(query, algorithm)
    \/ saveToJSON

Spec == Init /\ [][Next]_vars

\* the manager has been constructed and no call has been made on it yet
Constructed == call.op = "constructor"

\* SpecSort: every sort call on every collection the constructor can build
\* from SortBags
InitSort ==
    /\ Loaded
    /\ \E initialData \in SeqsUpTo(SortBags, MaxSortLen) : constructor(initialData)

NextSort ==
    /\ Constructed
    /\ \E algorithm \in SortAlgorithm, key \in SortKey, order \in SortOrder :
          sort(algorithm, key, order)

SpecSort == InitSort /\ [][NextSort]_vars

\* SpecCrud: every addStudent, updateStudent and deleteStudent call on every
\* collection the constructor can build from CrudBags
InitCrud ==
    /\ Loaded
    /\ \E initialData \in SeqsUpTo(CrudBags, MaxCrudLen) : constructor(initialData)

NextCrud ==
    /\ Constructed
    /\ \/ \E data \in AddInputs : addStudent(data)
       \/ \E id \in Ids, data \in Partials : updateStudent(id, data)
       \/ \E id \in Ids : deleteStudent(id)

SpecCrud == InitCrud /\ [][NextCrud]_vars

\* SpecSearch: search calls on every collection the constructor can build
\* from SearchBags
InitSearch ==
    /\ Loaded
    /\ \E initialData \in SeqsUpTo(SearchBags, MaxSearchLen) : constructor(initialData)

NextSearch == \E query \in Queries, algorithm \in SearchAlgorithm : search(query, algorithm)

SpecSearch == InitSearch /\ [][NextSearch]_vars

\* SpecJson: export and import on the collections that addStudent builds from
\* the empty one, the import reading the texts of LoadTexts and the text that
\* saveToJSON has just returned
InitJson == Loaded /\ constructor(<<>>)

NextJson ==
    \/ \E data \in JsonBags :
          /\ Len(students) < MaxJsonLen \/ ~NimPattern(data.nim)
          /\ addStudent(data)
    \/ saveToJSON
    \/ \E text \in LoadTexts : loadFromJSON(text)
    \/ /\ call.op = "saveToJSON"
       /\ loadFromJSON(json)

SpecJson == InitJson /\ [][NextJson]_vars

\* SpecAlias: the calls that hand an array to the caller, and the caller
\* changing that array and the objects in it
InitAlias ==
    /\ Loaded
    /\ \E initialData \in SeqsUpTo(AliasBags, MaxAliasLen) : constructor(initialData)

NextAlias ==
    \/ getStudents
    \/ \E s \in AliasSorts : sort(s[1], s[2], s[3])
    \/ \E query \in AliasQueries, algorithm \in SearchAlgorithm : search(query, algorithm)
    \/ saveToJSON
    \/ \E data \in AliasPushes : callerPush(data)
    \/ callerPop
    \/ callerReverse
    \/ \E i \in 0..(Len(result) - 1), name \in AliasNames : callerSetName(i, name)

SpecAlias == InitAlias /\ [][NextAlias]_vars

\* SpecOrder: sort and the calls that insert nothing, in any sequence
InitOrder ==
    /\ Loaded
    /\ \E initialData \in SeqsUpTo(OrderBags, MaxOrderLen) : constructor(initialData)

NextOrder ==
    \/ \E s \in OrderSorts : sort(s[1], s[2], s[3])
    \/ \E id \in Ids : deleteStudent(id)
    \/ \E query \in MainQueries, algorithm \in SearchAlgorithm : search(query, algorithm)
    \/ getStudents
    \/ saveToJSON

SpecOrder == InitOrder /\ [][NextOrder]_vars

\* SpecLoop: binarySearch and shellSort iteration by iteration, and every
\* sort algorithm as a whole, on the collections the constructor builds from
\* LoopBags.  A function that has been entered runs on: JavaScript runs a
\* synchronous function to completion.
InitLoop ==
    /\ Loaded
    /\ \E initialData \in SeqsUpTo(LoopBags, MaxLoopLen) : constructor(initialData)

NextLoop ==
    \/ \E x \in LoopQueries : binarySearchCall(x)
    \/ binarySearchIterate
    \/ \E k \in LoopKeys : shellSortCall(k[1], k[2])
    \/ shellSortIterate
    \/ loopReturn
    \/ /\ loop.fn = "none"
       /\ Constructed
       /\ \E algorithm \in SortAlgorithm, k \in LoopKeys : sort(algorithm, k[1], k[2])

SpecLoop ==
    /\ InitLoop
    /\ [][NextLoop]_vars
    /\ WF_vars(binarySearchIterate)
    /\ WF_vars(shellSortIterate)
    /\ WF_vars(loopReturn)

\* SpecApi: the requests of Requests reach the handler in any interleaving
InitApi == Loaded /\ constructor(<<>>)

NextApi ==
    \E h \in Requests :
        \/ handler(h)
        \/ registerRoutesFulfils(h)
        \/ registerRoutesRejects(h)
        \/ handlerResume(h)

SpecApi == InitApi /\ [][NextApi]_vars

----------------------------------------------------------------------------
(* Vocabulary of the properties, independent of the operators above *)

\* how often x occurs in arr
Count(arr, x) == Cardinality({i \in 1..Len(arr) : arr[i] = x})

\* a and b hold the same objects with the same multiplicities
IsPermutation(a, b) ==
    /\ Len(a) = Len(b)
    /\ \A i \in 1..Len(a) : Count(a, a[i]) = Count(b, a[i])

\* the position in arr of the object with identity ref
PosOf(arr, ref) == CHOOSE i \in 1..Len(arr) : arr[i].ref = ref

\* x may stand directly before y in a sequence ordered by key in that order
InOrder(x, y, key, order) ==
    IF order = "asc" THEN ~ValLt(y[key], x[key], key) ELSE ~ValLt(x[key], y[key], key)

\* x and y carry equal key values (NaN equals nothing)
KeyEq(x, y, key) == x[key] = y[key] /\ (key = "gpa" => x[key] # NaN)

\* res is arr restricted to the positions in K, in the order of arr
IsFilterOf(res, arr, K) ==
    /\ Len(res) = Cardinality(K)
    /\ \A i \in K : res[Cardinality({k \in K : k <= i})] = arr[i]

\* s is a non-empty string of the decimal digits 0-9
DigitsOnly(s) == s # <<>> /\ s \in Seq(48..57)

\* q occurs in s as a contiguous substring
IsSubstring(q, s) ==
    \E i \in 1..(Len(s) + 1) :
        /\ i + Len(q) - 1 <= Len(s)
        /\ \A k \in 1..Len(q) : s[i + k - 1] = q[k]

----------------------------------------------------------------------------
(* C1 .. C10 *)

\* C1: the sequence returned by sort(algorithm, key, order) is a permutation
\* of the collection as it was before the call, and every adjacent pair
\* (x, y) of it satisfies compare(x, y, key, order) <= 0: it is
\* non-decreasing by key for asc and non-increasing for desc.
C1_SortedPermutation ==
    call.op = "sort" =>
        /\ ~threw
        /\ IsPermutation(result, pre)
        /\ \A i \in 1..(Len(result) - 1) :
              /\ compare(result[i], result[i + 1], call.key, call.order) <= 0
              /\ InOrder(result[i], result[i + 1], call.key, call.order)

\* shell sort by gpa descending has reordered four records, two of which tie
C1_Witness ==
    /\ call.op = "sort" /\ call.algorithm = "shell"
    /\ call.key = "gpa" /\ call.order = "desc"
    /\ Len(pre) = 4
    /\ Refs(result) # Refs(pre)
    /\ \E i, j \in 1..4 : i # j /\ KeyEq(pre[i], pre[j], "gpa")
    /\ \E i, j \in 1..4 : ValLt(pre[i].gpa, pre[j].gpa, "gpa")

\* C2: for bubble, insertion and merge sort, two records whose key values
\* are equal appear in the returned sequence in the relative order they had
\* in the collection before the call.
C2_Stable ==
    (call.op = "sort" /\ call.algorithm \in {"bubble", "insertion", "merge"}) =>
        \A i, j \in 1..Len(pre) :
            (i < j /\ KeyEq(pre[i], pre[j], call.key)) =>
                PosOf(result, pre[i].ref) < PosOf(result, pre[j].ref)

\* C3: when the collection is the result of sort(algorithm, key, order),
\* sort(algorithm, key, order) returns the same record at every position.
C3_Idempotent ==
    call.op = "sort" =>
        SortWith(call.algorithm, students, call.key, call.order) = students

C5_AddValidates ==
    call.op = "addStudent" =>
        /\ threw <=> ~DigitsOnly(call.data.nim)
        /\ threw => students = pre

\* addStudent with nim "12a34" has raised on a collection of three records
C5_Witness ==
    /\ call.op = "addStudent"
    /\ call.data.nim = <<49, 50, 97, 51, 52>>
    /\ threw
    /\ Len(pre) = 3
    /\ students = pre

\* C6: when data.nim is digits-only, the new collection is the old one
\* followed by one new record carrying the five fields of data, also when a
\* record with the same id or the same nim exists.
C6_AddAppends ==
    (call.op = "addStudent" /\ DigitsOnly(call.data.nim)) =>
        /\ ~threw
        /\ Len(students) = Len(pre) + 1
        /\ SubSeq(students, 1, Len(pre)) = pre
        /\ toJSON(students[Len(students)]) = call.data
        /\ \A i \in 1..Len(pre) : pre[i].ref # students[Len(students)].ref

\* a record was appended although its id and its nim were both present
C6_Witness ==
    /\ call.op = "addStudent" /\ ~threw
    /\ Len(students) = Len(pre) + 1
    /\ \E i \in 1..Len(pre) : pre[i].id = call.data.id
    /\ \E i \in 1..Len(pre) : pre[i].nim = call.data.nim

\* C7: updateStudent(id, partial) raises when no record has identifier id,
\* and then no field of any record and no part of the order changes.
C7_UpdateNotFound ==
    (call.op = "updateStudent" /\ \A i \in 1..Len(pre) : pre[i].id # call.id) =>
        /\ threw
        /\ students = pre

\* an update whose fields are all truthy has raised on a non-empty collection
C7_Witness ==
    /\ call.op = "updateStudent" /\ threw
    /\ Len(pre) >= 2
    /\ DOMAIN call.data = {"name", "nim", "major", "gpa"}
    /\ call.data.gpa = Num(40)

\* the value updateStudent leaves in field f of the record old
C8_Expected(old, data, f) ==
    IF f \notin DOMAIN data THEN old[f]
    ELSE IF f \in {"name", "nim"} /\ data[f] = <<>> THEN old[f]
    ELSE IF f = "major" /\ data[f] = "" THEN old[f]
    ELSE IF f = "gpa" /\ data[f] \in {Num(0), NaN} THEN old[f]
    ELSE data[f]

\* C8: for an existing id, updateStudent(id, partial) overwrites on the
\* matching record exactly those of name, nim, major, gpa whose supplied
\* value is truthy; an absent field, an empty string and the number 0 are
\* skipped; order, length and all other records are unchanged.
C8_UpdateTruthy ==
    (call.op = "updateStudent" /\ \E i \in 1..Len(pre) : pre[i].id = call.id) =>
        /\ ~threw
        /\ Len(students) = Len(pre)
        /\ \E at \in 1..Len(pre) :
              /\ pre[at].id = call.id
              /\ \A i \in 1..Len(pre) : i # at => students[i] = pre[i]
              /\ students[at].ref = pre[at].ref
              /\ students[at].id = pre[at].id
              /\ \A f \in {"name", "nim", "major", "gpa"} :
                    students[at][f] = C8_Expected(pre[at], call.data, f)

\* an update with major "Z" and gpa 0 has changed the major and kept a
\* non-zero gpa
C8_Witness ==
    /\ call.op = "updateStudent" /\ ~threw
    /\ call.data = [major |-> "Z", gpa |-> Num(0)]
    /\ \E at \in 1..Len(pre) :
          /\ students[at].major = "Z" /\ pre[at].major # "Z"
          /\ students[at].gpa = pre[at].gpa /\ pre[at].gpa = Num(35)

\* C9: deleteStudent(id) never raises; afterwards the collection is the
\* previous one with every record whose identifier is id removed and the
\* others in their previous relative order; unchanged when none has that id.
C9_DeleteAll ==
    call.op = "deleteStudent" =>
        /\ ~threw
        /\ IsFilterOf(students, pre, {i \in 1..Len(pre) : pre[i].id # call.id})
        /\ (\A i \in 1..Len(pre) : pre[i].id # call.id) => students = pre

\* two records sharing the id were removed from between two that remain
C9_Witness ==
    /\ call.op = "deleteStudent"
    /\ Len(pre) = 4 /\ Len(students) = 2
    /\ pre[1].id = call.id /\ pre[3].id = call.id
    /\ students = <<pre[2], pre[4]>>
    /\ pre[2] # pre[4]

\* s matches query: its lower-cased name contains the lower-cased query, or
\* its nim contains the query
C10_Matches(s, query) ==
    \/ IsSubstring(toLowerCase(query), toLowerCase(s.name))
    \/ IsSubstring(query, s.nim)

\* C10: search(query, 'linear') and search(query, 'sequential') return
\* exactly the matching records of the collection, each once, in the order
\* of the collection; without a match the result is empty and nothing is
\* raised.
C10_LinearSearch ==
    (call.op = "search" /\ call.algorithm \in {"linear", "sequential"}) =>
        /\ ~threw
        /\ IsFilterOf(result, pre, {i \in 1..Len(pre) : C10_Matches(pre[i], call.query)})

\* query "AB" has returned the records named "Ab" and "AB c", in collection
\* order, and left out a third record
C10_Witness ==
    /\ call.op = "search" /\ call.algorithm = "sequential"
    /\ call.query = <<65, 66>>
    /\ Len(pre) = 3 /\ Len(result) = 2
    /\ result[1].name = <<65, 66, 32, 99>>
    /\ result[2].name = <<65, 98>>

----------------------------------------------------------------------------
(* C11 .. C20 *)

\* x and y are the same string up to letter case
SameNameIgnoringCase(x, y) == toLowerCase(x) = toLowerCase(y)

\* C11: for every collection and every query, if at least one record's name
\* equals the query case-insensitively, search(query, 'binary') returns
\* exactly one record, and that record's name equals the query
\* case-insensitively.
C11_BinaryFindsName ==
    (/\ call.op = "search" /\ call.algorithm = "binary"
     /\ \E i \in 1..Len(pre) : SameNameIgnoringCase(pre[i].name, call.query)) =>
        /\ Len(result) = 1
        /\ SameNameIgnoringCase(result[1].name, call.query)

\* C12: search(query, 'binary') returns at most one record; a returned
\* record is a member of the collection and its whole name equals the query
\* case-insensitively; when no name equals the query case-insensitively the
\* result is empty.
C12_BinaryAtMostOne ==
    (call.op = "search" /\ call.algorithm = "binary") =>
        /\ ~threw
        /\ Len(result) <= 1
        /\ Len(result) = 1 =>
              /\ \E i \in 1..Len(pre) : pre[i] = result[1]
              /\ SameNameIgnoringCase(result[1].name, call.query)
        /\ (\A i \in 1..Len(pre) : ~SameNameIgnoringCase(pre[i].name, call.query)) =>
              result = <<>>

\* binary search for "AB" has returned the record named "Ab" out of three,
\* one of which contains the query as a proper substring of its name
C12_Witness ==
    /\ call.op = "search" /\ call.algorithm = "binary"
    /\ call.query = <<65, 66>>
    /\ Len(pre) = 3
    /\ result # <<>> /\ result[1].name = <<65, 98>>
    /\ \E i \in 1..3 : pre[i].name = <<65, 66, 32, 99>>

\* C13: search never changes the collection: the same records in the same
\* order with the same field values before and after, for linear,
\* sequential and binary search; the sort binary search performs is not
\* persisted.
C13_SearchIsPure ==
    call.op = "search" =>
        /\ ~threw
        /\ students = pre

\* binary search has found a record in a collection that is not ordered by
\* name, and the collection still is not
C13_Witness ==
    /\ call.op = "search" /\ call.algorithm = "binary"
    /\ Len(result) = 1
    /\ Len(pre) = 3
    /\ \E i \in 1..2 : StrLt(pre[i + 1].name, pre[i].name)
    /\ students = pre

\* the records of a and b agree position by position: each of the five fields
\* is defined in both or in neither, and carries the same value
SameRecords(a, b) ==
    /\ Len(a) = Len(b)
    /\ \A i \in 1..Len(a) : \A f \in Fields :
          /\ f \in DOMAIN a[i] <=> f \in DOMAIN b[i]
          /\ f \in DOMAIN a[i] \cap DOMAIN b[i] => a[i][f] = b[i][f]

\* C14: loadFromJSON called with the text that saveToJSON has just returned
\* succeeds and leaves a collection with as many records as before the
\* export, in the same order, each with the same id, name, nim, major and
\* gpa.
C14_RoundTrip ==
    [][(/\ call.op = "saveToJSON"
        /\ call'.op = "loadFromJSON"
        /\ call'.text = json) =>
            /\ ~threw'
            /\ SameRecords(students', students)]_vars

\* C15: a loadFromJSON that succeeds replaces the collection: afterwards it
\* holds one record per entry of the parsed array, in entry order, with the
\* fields of that entry unchanged whether or not its nim is digits-only, and
\* every record is a new object, none of them one the collection held before.
C15_LoadReplaces ==
    (call.op = "loadFromJSON" /\ ~threw) =>
        LET entries == call.text.array
        IN  /\ Len(students) = Len(entries)
            /\ \A i \in 1..Len(students) : \A f \in Fields :
                  IF "object" \in DOMAIN entries[i] /\ f \in DOMAIN entries[i].object
                  THEN f \in DOMAIN students[i] /\ students[i][f] = entries[i].object[f]
                  ELSE f \notin DOMAIN students[i]
            /\ \A i \in 1..Len(students) : \A k \in 1..Len(pre) :
                  students[i].ref # pre[k].ref
            /\ \A i, j \in 1..Len(students) :
                  i # j => students[i].ref # students[j].ref

\* a collection of two records was replaced by the two entries of the text,
\* the second of them with the nim "1a"
C15_Witness ==
    /\ call.op = "loadFromJSON" /\ ~threw
    /\ Len(pre) = 2 /\ Len(students) = 2
    /\ \A i \in 1..2 : Fields \subseteq DOMAIN pre[i] \cap DOMAIN students[i]
    /\ pre[1].id = "s1" /\ pre[2].id = "s2"
    /\ students[1].id = "s1"
    /\ students[2].nim = <<49, 97>> /\ ~DigitsOnly(students[2].nim)

\* v is a record bag: an object with the properties id, name, nim, major, gpa
IsRecordBag(v) == "object" \in DOMAIN v /\ Fields \subseteq DOMAIN v.object

\* text parses to an array of record bags
WellShaped(text) ==
    /\ "array" \in DOMAIN text
    /\ \A i \in 1..Len(text.array) : IsRecordBag(text.array[i])

\* C16: loadFromJSON raises an error whenever its text does not parse or
\* parses to anything but an array of record bags.
C16_LoadRejects ==
    (call.op = "loadFromJSON" /\ ~WellShaped(call.text)) => threw

\* C17: getStudents returns a new sequence holding the collection's records
\* in the collection's order; whatever the caller then adds to, removes from
\* or reorders in that sequence, the collection keeps the records and the
\* order it had, and a record of the returned sequence that is in the
\* collection shows there every field written through it.
C17_GetStudentsCopy ==
    call.op = "getStudents" =>
        /\ ~threw
        /\ edits = 0 => result = students
        /\ Refs(students) = Refs(pre)
        /\ \A i \in 1..Len(result) : \A k \in 1..Len(students) :
              result[i].ref = students[k].ref => result[i] = students[k]

\* the caller has changed the returned sequence twice: it no longer holds the
\* collection's records in the collection's order, and a name the caller set
\* to "Z" is the name of that record in the collection
C17_Witness ==
    /\ call.op = "getStudents"
    /\ edits = 2
    /\ Refs(result) # Refs(students)
    /\ \E k \in 1..Len(students) :
          students[k].name = <<90>> /\ pre[k].name # <<90>>

\* C18: no sequence handed to a caller is the manager's internal sequence: a
\* change the caller makes to a sequence it was handed leaves the collection
\* with the same records in the same order.
C18_NoExternalAlias ==
    [][edits' > edits => Refs(students') = Refs(students)]_vars

\* C19: across every call, each record that stays in the collection keeps its
\* id: an object that is in the collection before and after a call carries
\* the same id on both sides, also when the call is an updateStudent whose
\* partial carries an id.
C19_IdImmutable ==
    \A i \in 1..Len(pre) : \A k \in 1..Len(students) :
        pre[i].ref = students[k].ref => pre[i].id = students[k].id

\* an updateStudent whose partial carries another id has changed the gpa of
\* the record it addressed
C19_Witness ==
    /\ call.op = "updateStudent" /\ ~threw
    /\ "id" \in DOMAIN call.data /\ call.data.id # call.id
    /\ \E k \in 1..Len(students) :
          /\ students[k].ref = pre[k].ref
          /\ students[k].id = call.id
          /\ students[k].gpa = call.data.gpa
          /\ pre[k].gpa # call.data.gpa

\* C20: updateStudent on an id that is in the collection, with a partial
\* whose nim is non-empty and not digits-only, raises no error and stores
\* that nim in the first record with the id.
C20_UpdateSkipsValidation ==
    (/\ call.op = "updateStudent"
     /\ "nim" \in DOMAIN call.data
     /\ call.data.nim # <<>>
     /\ ~DigitsOnly(call.data.nim)
     /\ \E i \in 1..Len(pre) : pre[i].id = call.id) =>
        /\ ~threw
        /\ \E k \in 1..Len(students) :
              /\ students[k].id = call.id
              /\ \A j \in 1..(k - 1) : students[j].id # call.id
              /\ students[k].nim = call.data.nim

\* updateStudent(id, {nim: "1a"}) on a collection whose nims were all
\* digits-only: afterwards one of them is not
C20_Witness ==
    /\ call.op = "updateStudent" /\ ~threw
    /\ call.data = [nim |-> <<49, 97>>]
    /\ pre # <<>>
    /\ \A i \in 1..Len(pre) : DigitsOnly(pre[i].nim)
    /\ \E k \in 1..Len(students) : ~DigitsOnly(students[k].nim)

----------------------------------------------------------------------------
(* C21 .. C30 *)

\* C21: in the merge step of merge sort, when the head of the left run and
\* the head of the right run compare equal, the left head is emitted first.
\* Stated on the last merge of a sort call, whose runs are the two sorted
\* halves of the collection: when their heads compare equal, the first record
\* returned is the head of the left run.
C21_MergeTakesLeft ==
    (call.op = "sort" /\ call.algorithm = "merge" /\ Len(pre) >= 2) =>
        LET mid == Len(pre) \div 2
            left == mergeSort(SubSeq(pre, 1, mid), call.key, call.order)
            right == mergeSort(SubSeq(pre, mid + 1, Len(pre)), call.key, call.order)
        IN  compare(left[1], right[1], call.key, call.order) = 0 =>
                result[1] = left[1]

\* the sign of an integer
Sign(n) == IF n < 0 THEN -1 ELSE IF n > 0 THEN 1 ELSE 0

\* C22: for any two records a and b of the collection and any key,
\* compare(a, b, key, asc) is negative when a[key] < b[key], zero when the
\* two values are equal and positive when a[key] > b[key];
\* compare(a, b, key, desc) is its negation; and for either order the sign of
\* compare(a, b) is the negated sign of compare(b, a).
C22_CompareSigns ==
    call.op = "sort" =>
        \A i, j \in 1..Len(pre) : \A key \in SortKey :
            LET a == pre[i]
                b == pre[j]
                asc == compare(a, b, key, "asc")
                desc == compare(a, b, key, "desc")
            IN  /\ ValLt(a[key], b[key], key) => asc < 0
                /\ ValLt(b[key], a[key], key) => asc > 0
                /\ a[key] = b[key] => asc = 0
                /\ desc = -asc
                /\ \A order \in SortOrder :
                      Sign(compare(a, b, key, order)) = -Sign(compare(b, a, key, order))

\* a sort in descending order of a collection that holds two records with
\* different names, two with the same gpa and one whose gpa is NaN
C22_Witness ==
    /\ call.op = "sort" /\ call.order = "desc"
    /\ \E i, j \in 1..Len(pre) :
          /\ StrLt(pre[i].name, pre[j].name)
          /\ compare(pre[i], pre[j], "name", "desc") = 1
    /\ \E i, j \in 1..Len(pre) : i # j /\ KeyEq(pre[i], pre[j], "gpa")
    /\ \E i \in 1..Len(pre) : pre[i].gpa = NaN

\* C26: a loadFromJSON that raises leaves the collection as it was: the same
\* records in the same order, none of the entries that precede the failing
\* one imported.
C26_FailedLoadKeeps ==
    (call.op = "loadFromJSON" /\ threw) => students = pre

\* the second entry of the text is null: the call raised on a collection of
\* two records after the first entry had been read
C26_Witness ==
    /\ call.op = "loadFromJSON" /\ threw
    /\ "array" \in DOMAIN call.text
    /\ Len(call.text.array) = 2
    /\ call.text.array[1] # Null /\ call.text.array[2] = Null
    /\ Len(pre) = 2
    /\ students = pre

\* the position of the first record of arr with identifier id
FirstWith(arr, id) ==
    CHOOSE i \in 1..Len(arr) : arr[i].id = id /\ \A k \in 1..(i - 1) : arr[k].id # id

\* C27: updateStudent(id, partial) changes no record but the first one with
\* that id in collection order, whatever other records share the id, and it
\* is that first record which takes the change; deleteStudent(id) leaves no
\* record with that id.
C27_FirstDuplicate ==
    /\ (call.op = "updateStudent" /\ \E i \in 1..Len(pre) : pre[i].id = call.id) =>
          LET first == FirstWith(pre, call.id)
          IN  /\ Len(students) = Len(pre)
              /\ \A i \in 1..Len(pre) : i # first => students[i] = pre[i]
              /\ students[first].ref = pre[first].ref
              /\ students # pre => students[first] # pre[first]
    /\ call.op = "deleteStudent" =>
          \A k \in 1..Len(students) : students[k].id # call.id

\* two records share the id: the update changed the gpa of the one that
\* comes first in the collection, which is the one created later, and left
\* the other with its gpa
C27_Witness ==
    /\ call.op = "updateStudent" /\ ~threw
    /\ \E i, j \in 1..Len(pre) :
          /\ i < j
          /\ pre[i].id = call.id /\ pre[j].id = call.id
          /\ i = FirstWith(pre, call.id)
          /\ pre[i].ref > pre[j].ref
          /\ students[i].gpa # pre[i].gpa
          /\ students[j] = pre[j]
          /\ students[j].gpa # students[i].gpa

\* C28: for every collection, key and order the five algorithms return
\* sequences with the same key value at every position, and the same record
\* at every position when the key values of the collection are pairwise
\* distinct.
C28_AlgorithmsAgree ==
    call.op = "sort" =>
        \A algorithm \in SortAlgorithm :
            LET other == SortWith(algorithm, pre, call.key, call.order)
            IN  /\ \A i \in 1..Len(pre) : other[i][call.key] = result[i][call.key]
                /\ (\A i, j \in 1..Len(pre) :
                        i # j => pre[i][call.key] # pre[j][call.key]) =>
                      other = result

\* C30: search("", linear) and search("", sequential) return every record of
\* the collection in collection order; search("", binary) returns a record
\* only if the name of some record is the empty string, and then one with
\* the empty name.
C30_EmptyQuery ==
    (call.op = "search" /\ call.query = <<>>) =>
        /\ call.algorithm \in {"linear", "sequential"} => result = pre
        /\ (call.algorithm = "binary" /\ result # <<>>) =>
              /\ \E i \in 1..Len(pre) : pre[i].name = <<>>
              /\ result[1].name = <<>>

\* the linear search for "" returned all three records, the binary one
\* would have a record with the empty name to return
C30_Witness ==
    /\ call.op = "search" /\ call.query = <<>> /\ call.algorithm = "linear"
    /\ Len(pre) = 3
    /\ result = pre
    /\ pre[2].name = <<>> /\ pre[1].name # <<>> /\ pre[3].name # <<>>

\* every adjacent pair of arr is in order under compare(., ., key, order)
Sorted(arr, key, order) ==
    \A i \in 1..(Len(arr) - 1) : compare(arr[i], arr[i + 1], key, order) <= 0

\* C29: once sort(algorithm, key, order) has returned, a deleteStudent,
\* search, getStudents or saveToJSON call leaves the collection ordered under
\* compare(., ., key, order).
C29_SortednessSurvives ==
    [][(/\ call.op = "sort"
        /\ call'.op \in {"deleteStudent", "search", "getStudents", "saveToJSON"}) =>
            Sorted(students', call.key, call.order)]_vars

C24_RoutesBeforeRequests ==
    \A h \in Requests : pc[h] = "done" => completed >= 1

\* two requests found initialized false and both were served after their
\* registerRoutes calls, a third was served without registering
C24_Witness ==
    /\ invoked = 2
    /\ completed = 2
    /\ \A h \in Requests : pc[h] = "done"

\* C25: registerRoutes is invoked at most once over the lifetime of the
\* module, in every interleaving of the invocations.
C25_RegistersOnce ==
    invoked <= 1

====
